---- MODULE Spec2Model ----
(***************************************************************************)
(* Model of the CODERUSH genetic optimizer                                 *)
(*   src/core/algoritmo_genetico.py  (EvaluadorFitness,                    *)
(*   AlgoritmoGeneticoCoderush, AlgoritmoGenetico)                         *)
(*   src/api/routes/asignaciones.py  (/optimizar)                          *)
(*                                                                         *)
(* Numbers.  The code computes with Python floats.  The model uses fixed   *)
(* point integers: "milli" values are 1000 * the float, "micro" values     *)
(* are 1000000 * the float; divisions truncate.  A fitness is a micro      *)
(* value, so round(fitness, 6) of the code is the value itself.            *)
(* Indices of problems and participants are 0-based as in the code.        *)
(***************************************************************************)
EXTENDS Integers, Sequences, FiniteSets, TLC

\* ------------------------------------------------------------------------
\* Bounds of the model (not program constants)
\* ------------------------------------------------------------------------
\* number of evaluations / generations that may raise an internal exception
MaxFallos == 1

\* ------------------------------------------------------------------------
\* Program constants
\* ------------------------------------------------------------------------
\* marks an attribute the input object does not have (hasattr is False)
Ausente == -1
peso_puntuacion == 40
peso_compatibilidad == 30
peso_tiempo == 20
peso_balance == 10
MaxIntentos == 5
TopK == 3
GeneracionCritica == 5
MaxSinMejora == 30
FitnessOptimo == 980000
UmbralMejora == 10
UmbralFitnessAlto == 800000
CadenciaHistorial == 10
UmbralDiversidad == 10
ProbMutacion == 150

\* the element of a singleton.  A value that is used more than once is bound
\* by a set constructor over a singleton, so that it is computed once
Unico(S) == CHOOSE v \in S : TRUE

Min2(a, b) == Unico({IF t[1] < t[2] THEN t[1] ELSE t[2] : t \in {<<a, b>>}})
Max2(a, b) == Unico({IF t[1] > t[2] THEN t[1] ELSE t[2] : t \in {<<a, b>>}})
Clamp(lo, x, hi) == Max2(lo, Min2(hi, x))

RECURSIVE SumDesde(_, _)
SumDesde(s, k) == IF k > Len(s) THEN 0 ELSE s[k] + SumDesde(s, k + 1)

SumSeq(s) == Unico({SumDesde(v, 1) : v \in {s}})

RECURSIVE ISqrtEntre(_, _, _)
\* largest r in lo..hi with r*r <= x  (np.sqrt, truncated); the bounds of
\* the bisection are computed once per step
ISqrtEntre(x, lo, hi) ==
  IF lo >= hi THEN lo
  ELSE Unico({ IF t[3] * t[3] <= x THEN ISqrtEntre(x, t[3], t[2])
               ELSE ISqrtEntre(x, t[1], t[3] - 1) :
               t \in {<<lo, hi, (lo + hi + 1) \div 2>>} })

ISqrt(x) == Unico({ISqrtEntre(v, 0, 40000) : v \in {x}})

\* ------------------------------------------------------------------------
\* Scoring kernel of EvaluadorFitness (the fallback paths taken by objects
\* that define no calcular_* / estimar_* method of their own)
\* participant: [tasa, experiencia, competencias_previas,
\*               problemas_resueltos_total]
\* problem:     [puntos_totales, puntos_base, tiempo_limite, nivel_dificultad]
\* An attribute the object does not have is Ausente; the inputs of the model
\* carry none of the other attribute names the code also looks up.
\* ------------------------------------------------------------------------
\* _calcular_tasa_exito_estimada, milli
TasaExitoEstimada(p) ==
  LET experiencia == IF p.experiencia # Ausente THEN p.experiencia
                     ELSE p.competencias_previas
  IN
  IF experiencia = Ausente /\ p.problemas_resueltos_total = Ausente
  THEN 600
  ELSE LET e == IF experiencia = Ausente THEN 0
                ELSE (Min2(experiencia, 20) * 200) \div 20
           r == IF p.problemas_resueltos_total = Ausente THEN 0
                ELSE (Min2(p.problemas_resueltos_total, 100) * 150) \div 100
       IN Clamp(100, 500 + e + r, 900)

\* _obtener_tasa_exito_participante, milli
TasaExito(p) ==
  IF p.tasa # Ausente /\ p.tasa >= 0 /\ p.tasa <= 1000 THEN p.tasa
  ELSE TasaExitoEstimada(p)

AtribONulo(v) == IF v = Ausente \/ v < 0 THEN 0 ELSE v

\* _calcular_compatibilidad_segura, milli
CompatibilidadSegura(p, prob) ==
  LET experiencia == IF p.competencias_previas # Ausente
                     THEN AtribONulo(p.competencias_previas)
                     ELSE AtribONulo(p.experiencia)
      resueltos == AtribONulo(p.problemas_resueltos_total)
      factor_experiencia == Min2(300, (experiencia * 300) \div 20)
      factor_problemas == Min2(200, (resueltos * 200) \div 100)
  IN Clamp(100, TasaExito(p) + factor_experiencia + factor_problemas, 950)

\* factores_dificultad, in tenths
FactorDificultad(d) ==
  CASE d = "muy_facil" -> 13
    [] d = "facil" -> 12
    [] d = "medio" -> 10
    [] d = "dificil" -> 8
    [] d = "muy_dificil" -> 6
    [] OTHER -> 10

\* _calcular_probabilidad_exito_segura, milli
ProbabilidadExitoSegura(p, prob) ==
  Clamp(100, (TasaExito(p) * FactorDificultad(prob.nivel_dificultad)) \div 10, 950)

\* _estimar_tiempo_seguro, minutes
EstimarTiempoSeguro(p, prob) ==
  LET bruto == IF prob.tiempo_limite = Ausente \/ prob.tiempo_limite <= 0
               THEN 120 ELSE prob.tiempo_limite
      tiempo_base == Clamp(30, bruto, 300)
      experiencia == AtribONulo(p.competencias_previas)
      factor_experiencia == Max2(700, 1000 - (experiencia * 1000) \div 50)
  IN Max2(30, (tiempo_base * factor_experiencia) \div 1000)

\* _obtener_puntos_seguros
PuntosSeguros(prob) ==
  IF prob.puntos_totales # Ausente /\ prob.puntos_totales > 0
  THEN prob.puntos_totales
  ELSE LET base == IF prob.puntos_base = Ausente \/ prob.puntos_base <= 0
                   THEN 100 ELSE prob.puntos_base
       IN Clamp(10, base, 1000)

\* getattr(p, 'tiempo_limite', 120) of _calcular_tiempo_normalizado
TiempoLimiteCrudo(prob) ==
  IF prob.tiempo_limite = Ausente THEN 120 ELSE prob.tiempo_limite

\* ------------------------------------------------------------------------
\* Chromosomes: matriz[i][j] in 0..3, i a problem index, j a participant
\* index
\* ------------------------------------------------------------------------
Idx(n) == 0 .. (n - 1)

MatrizCero(np, na) == [i \in Idx(np) |-> [j \in Idx(na) |-> 0]]

Filas(m) == DOMAIN m

Columnas(m) == IF DOMAIN m = {} THEN {} ELSE DOMAIN m[0]

\* the non-zero cells
Celdas(m) == {c \in Filas(m) \X Columnas(m) : m[c[1]][c[2]] > 0}

Poner(m, i, j, v) == [m EXCEPT ![i][j] = v]

RECURSIVE SeqDeCeldas(_, _, _)
\* cells of set S as a sequence in row-major order, na columns per row
SeqDeCeldas(S, k, tope) ==
  IF k >= tope.np * tope.na THEN <<>>
  ELSE LET c == <<k \div tope.na, k % tope.na>>
       IN (IF c \in S THEN <<c>> ELSE <<>>) \o SeqDeCeldas(S, k + 1, tope)

CeldasEnOrden(m) ==
  LET np == Cardinality(Filas(m))
      na == Cardinality(Columnas(m))
  IN IF na = 0 THEN <<>> ELSE SeqDeCeldas(Celdas(m), 0, [np |-> np, na |-> na])

\* ------------------------------------------------------------------------
\* EvaluadorFitness
\* ------------------------------------------------------------------------
\* _extraer_asignaciones_validas: one record per non-zero cell, row-major
RECURSIVE ExtraerDe(_, _, _, _)
ExtraerDe(cs, m, problemas, participantes) ==
  IF cs = <<>> THEN <<>>
  ELSE LET i == Head(cs)[1]
           j == Head(cs)[2]
           prob == problemas[i + 1]
           part == participantes[j + 1]
           probabilidad == Clamp(0, ProbabilidadExitoSegura(part, prob), 1000)
           puntos == Max2(10, PuntosSeguros(prob))
       IN << [problema_idx |-> i,
              participante_idx |-> j,
              prioridad |-> m[i][j],
              compatibilidad |-> Clamp(0, CompatibilidadSegura(part, prob), 1000),
              probabilidad_exito |-> probabilidad,
              tiempo_estimado |-> Max2(30, EstimarTiempoSeguro(part, prob)),
              puntos_problema |-> puntos,
              puntuacion_esperada |-> puntos * probabilidad] >>
          \o ExtraerDe(Tail(cs), m, problemas, participantes)

ExtraerAsignacionesValidas(m, problemas, participantes) ==
  LET np == Min2(Cardinality(Filas(m)), Len(problemas))
      na == Min2(Cardinality(Columnas(m)), Len(participantes))
  IN Unico({ExtraerDe(cs, m, problemas, participantes) :
              cs \in {SelectSeq(CeldasEnOrden(m), LAMBDA c : c[1] < np /\ c[2] < na)}})

RECURSIVE SinDuplicados(_, _, _)
\* VALIDACION 1 / 2: keep the first assignment of every value of field f
SinDuplicados(asigs, f, vistos) ==
  IF asigs = <<>> THEN <<>>
  ELSE IF Head(asigs)[f] \in vistos
       THEN SinDuplicados(Tail(asigs), f, vistos)
       ELSE <<Head(asigs)>>
            \o SinDuplicados(Tail(asigs), f, vistos \cup {Head(asigs)[f]})

Campo(asigs, f) == [k \in 1 .. Len(asigs) |-> asigs[k][f]]

\* _calcular_puntuacion_normalizada, micro
PuntuacionNormalizada(asigs, problemas) ==
  LET total == SumSeq(Campo(asigs, "puntuacion_esperada"))
      maxima == SumSeq([k \in 1 .. Len(problemas) |-> PuntosSeguros(problemas[k])])
  IN IF maxima = 0 THEN 0 ELSE Clamp(0, (total * 1000) \div maxima, 1000000)

\* _calcular_compatibilidad_promedio, micro
CompatibilidadPromedio(asigs) ==
  Clamp(0, (SumSeq(Campo(asigs, "compatibilidad")) * 1000) \div Len(asigs), 1000000)

\* _calcular_tiempo_normalizado, micro: 1 - min(1, total / (1.5 * sum of limits))
TiempoNormalizado(asigs, problemas) ==
  LET total == SumSeq(Campo(asigs, "tiempo_estimado"))
      limites == SumSeq([k \in 1 .. Len(problemas) |-> TiempoLimiteCrudo(problemas[k])])
  IN IF limites = 0 THEN 500000
     ELSE Clamp(0, 1000000 - Min2(1000000, (total * 2000000) \div (3 * limites)), 1000000)

\* _calcular_balance_participantes, micro
BalanceParticipantes(asigs, total_participantes) ==
  IF total_participantes = 0 THEN 0
  ELSE LET usados == {asigs[k].participante_idx : k \in 1 .. Len(asigs)}
       IN Clamp(0, (Cardinality(usados) * 1000000) \div total_participantes, 1000000)

\* _calcular_diversificacion, micro
Diversificacion(asigs) ==
  LET n == Len(asigs)
      prio == Campo(asigs, "prioridad")
      sx == SumSeq(prio)
      sxx == SumSeq([k \in 1 .. n |-> prio[k] * prio[k]])
      \* np.var, milli
      varianza == IF n > 1 THEN ((n * sxx - sx * sx) * 1000) \div (n * n) ELSE 0
      si == SumSeq(Campo(asigs, "problema_idx"))
      sj == SumSeq(Campo(asigs, "participante_idx"))
      \* distance of position k to the centroid, milli
      dist(k) == LET di == n * asigs[k].problema_idx - si
                     dj == n * asigs[k].participante_idx - sj
                 IN ISqrt((di * di + dj * dj) * 1000000) \div n
      dispersion == IF n > 1 THEN SumSeq([k \in 1 .. n |-> dist(k)]) \div n ELSE 0
  IN Min2(1000000, (300 * varianza + 700 * dispersion) \div 10)

\* the individual after evaluar_individuo met an internal exception
\* (lines 122-127), or found no assignment (lines 35-40, 66-71)
Invalido(cromosoma) ==
  [cromosoma |-> cromosoma, fitness |-> 0, es_valido |-> FALSE]

\* evaluar_individuo, no exception raised
\* lines 73-120: the components, the weighted sum, the diversification and
\* the bonus of a non-empty list of assignments
FitnessDe(finales, problemas, participantes) ==
  LET componentes == <<PuntuacionNormalizada(finales, problemas),
                       CompatibilidadPromedio(finales),
                       TiempoNormalizado(finales, problemas),
                       BalanceParticipantes(finales, Len(participantes)),
                       Diversificacion(finales)>>
  IN Unico({ LET fitness_base == (peso_puntuacion * c[1]
                                  + peso_compatibilidad * c[2]
                                  + peso_tiempo * c[3]
                                  + peso_balance * c[4]) \div 100
                 con_div == fitness_base + c[5] \div 100
                 fitness == IF c[2] > 800000 THEN (con_div * 11) \div 10 ELSE con_div
             IN Clamp(0, fitness, 1000000) : c \in {componentes} })

\* evaluar_individuo, no exception raised
Evaluar(cromosoma, problemas, participantes) ==
  LET asignaciones == ExtraerAsignacionesValidas(cromosoma, problemas, participantes)
      finales(asigs) ==
        Unico({SinDuplicados(sin_part, "problema_idx", {}) :
                 sin_part \in {SinDuplicados(asigs, "participante_idx", {})}})
  IN Unico({ IF f = <<>> THEN Invalido(cromosoma)
             ELSE [cromosoma |-> cromosoma,
                   fitness |-> FitnessDe(f, problemas, participantes),
                   es_valido |-> TRUE] :
             f \in {finales(a) : a \in {asignaciones}} })

\* a fresh IndividuoGenetico(cromosoma): fitness 0.0, es_valido False
Individuo(cromosoma) == Invalido(cromosoma)

\* ------------------------------------------------------------------------
\* Sorting as Python does it: sorted(..., reverse=True) is stable
\* ------------------------------------------------------------------------
RECURSIVE LexMayor(_, _)
\* tuple a > tuple b in Python's lexicographic order
LexMayor(a, b) ==
  IF a = <<>> \/ b = <<>> THEN Len(a) > Len(b)
  ELSE IF Head(a) # Head(b) THEN Head(a) > Head(b)
       ELSE LexMayor(Tail(a), Tail(b))

RECURSIVE InsertarTupla(_, _)
InsertarTupla(s, x) ==
  IF s = <<>> THEN <<x>>
  ELSE IF LexMayor(x, Head(s)) THEN <<x>> \o s
       ELSE <<Head(s)>> \o InsertarTupla(Tail(s), x)

RECURSIVE OrdenarTuplasHasta(_, _)
\* the first n tuples of s, sorted
OrdenarTuplasHasta(s, n) ==
  IF n = 0 THEN <<>>
  ELSE Unico({InsertarTupla(t, s[n]) : t \in {OrdenarTuplasHasta(s, n - 1)}})

\* list.sort(reverse=True) of a list of tuples
OrdenarTuplasDesc(s) == Unico({OrdenarTuplasHasta(v, Len(v)) : v \in {s}})

RECURSIVE InsertarPorFitness(_, _)
\* x goes after every element whose fitness is >= its own (stability)
InsertarPorFitness(s, x) ==
  IF s = <<>> THEN <<x>>
  ELSE IF x.fitness > Head(s).fitness THEN <<x>> \o s
       ELSE <<Head(s)>> \o InsertarPorFitness(Tail(s), x)

RECURSIVE OrdenarPorFitnessHasta(_, _)
\* the first n individuals of s, sorted
OrdenarPorFitnessHasta(s, n) ==
  IF n = 0 THEN <<>>
  ELSE Unico({InsertarPorFitness(t, s[n]) : t \in {OrdenarPorFitnessHasta(s, n - 1)}})

\* the list as it stands, unsorted
EnOrdenDeLlegada(s) == s

\* sorted(poblacion, key=lambda x: x.fitness, reverse=True)
OrdenarPorFitness(s) == Unico({OrdenarPorFitnessHasta(v, Len(v)) : v \in {s}})

\* ------------------------------------------------------------------------
\* AlgoritmoGeneticoCoderush: configuration built by __init__
\* cfg: [problemas, participantes, num_problemas, num_participantes,
\*       tamanio_equipo, poblacion_size, generaciones_max, elite_size,
\*       max_asignaciones]
\* ------------------------------------------------------------------------
\* the messages of the exceptions; a message built with an f-string stands
\* without its numbers, the wrapper's team-size messages stand without their
\* prefix "Error:", and what ejecutar raises carries the prefix of line 859
MsgEquipoGrande == "El tamaño del equipo no puede ser mayor que el número de participantes disponibles"
MsgEquipoNoPositivo == "El tamaño del equipo debe ser mayor que 0"
MsgEntradaVacia == "Debe haber al menos un problema y un participante"
MsgSinInicioValido == "Error durante la optimización: No se pudo crear ningún individuo válido en la población inicial. Revise los datos de entrada."
MsgErrorCritico == "Error durante la optimización: Error crítico en generación"
MsgSinSoluciones == "Error durante la optimización: No se generaron soluciones válidas"
MsgNingunaSolucion == "Error durante la optimización: No se encontró ninguna solución válida"
MsgGeneracionNoDefinida == "Error durante la optimización: local variable 'generacion' referenced before assignment"

ErrorDe(clase, mensaje) == [exito |-> FALSE, clase |-> clase, mensaje |-> mensaje]

\* the team-size validation shared by both constructors; "ok" when it passes
ValidarEquipo(tamanio_equipo, num_participantes) ==
  IF tamanio_equipo # Ausente /\ tamanio_equipo > num_participantes
  THEN MsgEquipoGrande
  ELSE IF tamanio_equipo # Ausente /\ tamanio_equipo <= 0
       THEN MsgEquipoNoPositivo
       ELSE "ok"

\* AlgoritmoGeneticoCoderush.__init__: the message of the ValueError raised,
\* or "ok".  The team size is validated before the emptiness of the lists.
CoderushValidar(problemas, participantes, tamanio_equipo) ==
  LET equipo == ValidarEquipo(tamanio_equipo, Len(participantes))
  IN IF equipo # "ok" THEN equipo
     ELSE IF problemas = <<>> \/ participantes = <<>> THEN MsgEntradaVacia
          ELSE "ok"

\* AlgoritmoGenetico.__init__ (wrapper): validates the team size, then
\* constructs AlgoritmoGeneticoCoderush
WrapperValidar(problemas, participantes, tamanio_equipo) ==
  LET equipo == ValidarEquipo(tamanio_equipo, Len(participantes))
  IN IF equipo # "ok" THEN equipo
     ELSE CoderushValidar(problemas, participantes, tamanio_equipo)

EliteSize(poblacion_size) == Max2(3, (poblacion_size * 5) \div 100)

CoderushConfig(problemas, participantes, tamanio_equipo, poblacion_size, generaciones) ==
  LET equipo == IF tamanio_equipo = Ausente THEN Len(participantes) ELSE tamanio_equipo
  IN [problemas |-> problemas,
      participantes |-> participantes,
      num_problemas |-> Len(problemas),
      num_participantes |-> Len(participantes),
      tamanio_equipo |-> equipo,
      poblacion_size |-> poblacion_size,
      generaciones_max |-> generaciones,
      elite_size |-> EliteSize(poblacion_size),
      max_asignaciones |-> Min2(Len(problemas), equipo)]

\* ------------------------------------------------------------------------
\* Initial population: the chromosomes each strategy can produce
\* ------------------------------------------------------------------------
UnoAUno(S) ==
  \A c, d \in S : c # d => (c[1] # d[1] /\ c[2] # d[2])

\* the chromosome with the cells of S set to the priorities f, 0 elsewhere
MatrizDe(np, na, S, f) ==
  [i \in Idx(np) |-> [j \in Idx(na) |-> IF <<i, j>> \in S THEN f[<<i, j>>] ELSE 0]]

\* _crear_individuo_aleatorio: a random one-to-one matching of
\* min(num_problemas, tamanio_equipo) pairs, each priority randint(1, 3)
IndividuosAleatorios(cfg) ==
  LET k == Min2(cfg.num_problemas, Min2(cfg.tamanio_equipo, cfg.num_participantes))
      conjuntos == {S \in SUBSET (Idx(cfg.num_problemas) \X Idx(cfg.num_participantes)) :
                      Cardinality(S) = k /\ UnoAUno(S)}
  IN UNION { {MatrizDe(cfg.num_problemas, cfg.num_participantes, S, f) :
                f \in [S -> 1 .. 3]} : S \in conjuntos }

RECURSIVE GreedyDesde(_, _, _, _, _)
GreedyDesde(lista, m, usadosJ, usadosI, cfg) ==
  IF lista = <<>> THEN m
  ELSE LET comp == Head(lista)[1]
           i == Head(lista)[2]
           j == Head(lista)[3]
           prioridad == IF comp > 800 THEN 3 ELSE IF comp > 600 THEN 2 ELSE 1
       IN IF j \notin usadosJ /\ i \notin usadosI
             /\ Cardinality(usadosI) < cfg.max_asignaciones
             /\ Cardinality(usadosJ) < cfg.tamanio_equipo
          THEN GreedyDesde(Tail(lista), Poner(m, i, j, prioridad),
                           usadosJ \cup {j}, usadosI \cup {i}, cfg)
          ELSE GreedyDesde(Tail(lista), m, usadosJ, usadosI, cfg)

\* _crear_individuo_greedy: deterministic
IndividuoGreedy(cfg) ==
  LET n == cfg.num_problemas * cfg.num_participantes
      lista == [k \in 1 .. n |->
                 LET i == (k - 1) \div cfg.num_participantes
                     j == (k - 1) % cfg.num_participantes
                 IN <<CompatibilidadSegura(cfg.participantes[j + 1], cfg.problemas[i + 1]), i, j>>]
  IN Unico({GreedyDesde(ordenada, MatrizCero(cfg.num_problemas, cfg.num_participantes),
                        {}, {}, cfg) : ordenada \in {OrdenarTuplasDesc(lista)}})

\* todas_las_asignaciones of _crear_individuo_balanceado: the problems by
\* priority group (points > 150: 3, > 75: 2, else 1), index order inside
ProblemasPorGrupo(cfg) ==
  LET grupo(i) == LET puntos == PuntosSeguros(cfg.problemas[i + 1])
                  IN IF puntos > 150 THEN 3 ELSE IF puntos > 75 THEN 2 ELSE 1
      todos == [k \in 1 .. cfg.num_problemas |-> <<k - 1, grupo(k - 1)>>]
  IN SelectSeq(todos, LAMBDA t : t[2] = 3)
     \o SelectSeq(todos, LAMBDA t : t[2] = 2)
     \o SelectSeq(todos, LAMBDA t : t[2] = 1)

\* injective sequences of length k over the participant indices
Selecciones(cfg, k) ==
  {q \in [1 .. k -> Idx(cfg.num_participantes)] :
     \A a, b \in 1 .. k : a # b => q[a] # q[b]}

\* _crear_individuo_balanceado: the problems are fixed, the participants a
\* random selection
IndividuosBalanceados(cfg) ==
  LET k(lista) == Min2(Len(lista), Min2(cfg.tamanio_equipo, cfg.num_participantes))
  IN { [i \in Idx(cfg.num_problemas) |-> [j \in Idx(cfg.num_participantes) |->
          IF \E a \in 1 .. t[2] : t[1][a][1] = i /\ q[a] = j
          THEN (CHOOSE x \in {t[1][a] : a \in 1 .. t[2]} : x[1] = i)[2]
          ELSE 0]] :
       t \in {<<lista, k(lista)>> : lista \in {ProblemasPorGrupo(cfg)}},
       q \in Selecciones(cfg, Min2(cfg.num_problemas,
                                   Min2(cfg.tamanio_equipo, cfg.num_participantes))) }

\* _crear_individuo_prioridad_alta: deterministic, all priorities 3
IndividuoPrioridadAlta(cfg) ==
  LET mejores == OrdenarTuplasDesc(
                   [k \in 1 .. cfg.num_participantes |->
                      <<TasaExito(cfg.participantes[k]), k - 1>>])
      seleccion == SubSeq(mejores, 1, Min2(cfg.tamanio_equipo, Len(mejores)))
      valiosos == OrdenarTuplasDesc(
                    [k \in 1 .. cfg.num_problemas |->
                       <<PuntosSeguros(cfg.problemas[k]), k - 1>>])
  IN Unico({ [i \in Idx(cfg.num_problemas) |-> [j \in Idx(cfg.num_participantes) |->
                IF \E a \in 1 .. Min2(Len(t[1]), Len(t[2])) :
                     t[2][a][2] = i /\ t[1][a][2] = j
                THEN 3 ELSE 0]] : t \in {<<seleccion, valiosos>>} })

\* the chromosomes individual number i (0-based) can start with
CromosomasIniciales(cfg, i) ==
  CASE i % 4 = 0 -> IndividuosAleatorios(cfg)
    [] i % 4 = 1 -> {IndividuoGreedy(cfg)}
    [] i % 4 = 2 -> IndividuosBalanceados(cfg)
    [] OTHER -> {IndividuoPrioridadAlta(cfg)}

RECURSIVE PoblacionesDesde(_, _)
PoblacionesDesde(cfg, i) ==
  IF i >= cfg.poblacion_size THEN {<<>>}
  ELSE {<<c>> \o resto : c \in CromosomasIniciales(cfg, i),
                          resto \in PoblacionesDesde(cfg, i + 1)}

\* _crear_poblacion_inicial: the possible initial populations (chromosomes),
\* individual i built by strategy i % 4
PoblacionesIniciales(cfg) == PoblacionesDesde(cfg, 0)

\* ------------------------------------------------------------------------
\* Variation operators
\* ------------------------------------------------------------------------
\* _cruzar_mejorado, todas_asignaciones: <<score, i, j>> of the non-zero
\* cells of parent 1, then of parent 2; score = compatibility * priority
AsignacionesDePadre(m, cfg) ==
  Unico({ [k \in 1 .. Len(cs) |->
             LET i == cs[k][1]
                 j == cs[k][2]
             IN <<CompatibilidadSegura(cfg.participantes[j + 1], cfg.problemas[i + 1])
                    * m[i][j], i, j>>] : cs \in {CeldasEnOrden(m)} })

\* orders in which the sort by score * uniform(0.8, 1.2) can leave the list:
\* a can precede b when 1.2 * score(a) > 0.8 * score(b)
OrdenesPosibles(lista) ==
  LET n == Len(lista)
  IN {o \in [1 .. n -> 1 .. n] :
        /\ \A a, b \in 1 .. n : a # b => o[a] # o[b]
        /\ \A a, b \in 1 .. n : a < b => 3 * lista[o[a]][1] > 2 * lista[o[b]][1]}

RECURSIVE SeleccionCruce(_, _, _, _, _)
\* the greedy selection of lines 953-967: the cells kept
SeleccionCruce(lista, o, k, S, cfg) ==
  IF k > Len(lista) THEN S
  ELSE LET i == lista[o[k]][2]
           j == lista[o[k]][3]
       IN IF (\A c \in S : c[1] # i /\ c[2] # j)
             /\ Cardinality(S) < cfg.max_asignaciones
          THEN SeleccionCruce(lista, o, k + 1, S \cup {<<i, j>>}, cfg)
          ELSE SeleccionCruce(lista, o, k + 1, S, cfg)

\* the child is drawn afresh, whatever the parents hold
CruzarSinPadres(padre1, padre2, cfg) == IndividuosAleatorios(cfg)

\* _cruzar_mejorado: the chromosomes the child can get.  A kept cell holds
\* the parent's priority or, with probability 0.1, randint(1, 3): any of 1..3
CruzarMejorado(padre1, padre2, cfg) ==
  LET conjuntos(lista) ==
        {SeleccionCruce(lista, o, 1, {}, cfg) : o \in OrdenesPosibles(lista)}
      todas_asignaciones ==
        AsignacionesDePadre(padre1, cfg) \o AsignacionesDePadre(padre2, cfg)
  IN UNION { {MatrizDe(cfg.num_problemas, cfg.num_participantes, S, f) :
                f \in [S -> 1 .. 3]} :
             S \in UNION {conjuntos(lista) : lista \in {todas_asignaciones}} }

ColumnasLibres(m) == {j \in Columnas(m) : \A c \in Celdas(m) : c[2] # j}

FilasLibres(m) == {i \in Filas(m) : \A c \in Celdas(m) : c[1] # i}

\* the assignment is copied to the free participant and kept where it was
MutCopiarParticipante(m) ==
  IF ColumnasLibres(m) = {} THEN {m}
  ELSE {Poner(m, c[1], nuevo, m[c[1]][c[2]]) :
          c \in Celdas(m), nuevo \in ColumnasLibres(m)}

\* mutation 'cambiar_participante'
MutCambiarParticipante(m) ==
  IF ColumnasLibres(m) = {} THEN {m}
  ELSE {Poner(Poner(m, c[1], c[2], 0), c[1], nuevo, m[c[1]][c[2]]) :
          c \in Celdas(m), nuevo \in ColumnasLibres(m)}

\* mutation 'cambiar_prioridad'
MutCambiarPrioridad(m) ==
  {Poner(m, c[1], c[2], v) : c \in Celdas(m), v \in 1 .. 3}

\* mutation 'intercambiar_asignaciones'
MutIntercambiar(m) ==
  IF Cardinality(Celdas(m)) < 2 THEN {m}
  ELSE {IF a = b THEN m
        ELSE Poner(Poner(Poner(Poner(m, a[1], a[2], 0), b[1], b[2], 0),
                         a[1], b[2], m[a[1]][a[2]]),
                   b[1], a[2], m[b[1]][b[2]]) :
          a \in Celdas(m), b \in Celdas(m)}

\* an assignment is added whenever a row and a column are free
MutAgregarSinTope(m, cfg) ==
  IF ColumnasLibres(m) # {} /\ FilasLibres(m) # {}
  THEN {Poner(m, i, j, v) : i \in FilasLibres(m), j \in ColumnasLibres(m), v \in 1 .. 3}
  ELSE {m}

\* mutation 'agregar_asignacion'
MutAgregar(m, cfg) ==
  IF Cardinality(Celdas(m)) < cfg.max_asignaciones
     /\ ColumnasLibres(m) # {} /\ FilasLibres(m) # {}
  THEN {Poner(m, i, j, v) : i \in FilasLibres(m), j \in ColumnasLibres(m), v \in 1 .. 3}
  ELSE {m}

\* _mutar_mejorado: the chromosomes it can return
MutarMejorado(m, cfg) ==
  IF Celdas(m) = {} THEN {m}
  ELSE MutCambiarParticipante(m) \cup MutCambiarPrioridad(m)
       \cup MutIntercambiar(m) \cup MutAgregar(m, cfg)

\* lines 885-897: the chromosomes of the child of two selected parents
\* (crossover or a copy of parent 1, then possibly a mutation)
HijosPosibles(padre1, padre2, cfg) ==
  UNION { bases \cup UNION {MutarMejorado(b, cfg) : b \in bases} :
          bases \in {CruzarMejorado(padre1, padre2, cfg) \cup {padre1}} }

\* ------------------------------------------------------------------------
\* _actualizar_top_soluciones
\* ------------------------------------------------------------------------
RECURSIVE FiltrarTop(_, _)
\* the walk over candidatos_ordenados; matrices are compared directly where
\* the code compares hash(cromosoma.tobytes())
FiltrarTop(candidatos, unicas) ==
  IF candidatos = <<>> \/ Len(unicas) >= TopK THEN unicas
  ELSE LET candidato == Head(candidatos)
           es_nuevo == \A k \in 1 .. Len(unicas) : unicas[k].cromosoma # candidato.cromosoma
           es_fitness_diverso == (\A k \in 1 .. Len(unicas) : unicas[k].fitness # candidato.fitness)
                                 \/ Len(unicas) = 0
       IN IF es_nuevo /\ (es_fitness_diverso \/ candidato.fitness > UmbralFitnessAlto)
          THEN FiltrarTop(Tail(candidatos), Append(unicas, candidato))
          ELSE FiltrarTop(Tail(candidatos), unicas)

\* the walk over the candidates without the sort of line 1057
ActualizarTopSinOrdenar(pob, top) ==
  Unico({FiltrarTop(candidatos, <<>>) : candidatos \in {pob \o top}})

\* the top solutions of the current population alone
ActualizarTopSinMemoria(pob, top) ==
  Unico({FiltrarTop(candidatos, <<>>) : candidatos \in {OrdenarPorFitness(pob)}})

\* the archive is filled once, from the initial population, and kept
ActualizarTopUnaVez(poblacion, top_soluciones) ==
  IF top_soluciones # <<>> THEN top_soluciones
  ELSE Unico({FiltrarTop(candidatos, <<>>) : candidatos \in {OrdenarPorFitness(poblacion)}})

ActualizarTopSoluciones(poblacion, top_soluciones) ==
  Unico({FiltrarTop(candidatos_ordenados, <<>>) :
           candidatos_ordenados \in {OrdenarPorFitness(poblacion \o top_soluciones)}})

\* ------------------------------------------------------------------------
\* _generar_asignaciones_detalle and _generar_resultado_final
\* ------------------------------------------------------------------------
RECURSIVE DetalleDe(_, _, _, _, _)
DetalleDe(cs, m, asignadosI, asignadosJ, cfg) ==
  IF cs = <<>> THEN <<>>
  ELSE LET i == Head(cs)[1]
           j == Head(cs)[2]
       IN IF i \in asignadosI \/ j \in asignadosJ
          THEN DetalleDe(Tail(cs), m, asignadosI, asignadosJ, cfg)
          ELSE << [problema_idx |-> i,
                   participante_idx |-> j,
                   prioridad |-> m[i][j],
                   tiempo_estimado |->
                     Max2(30, EstimarTiempoSeguro(cfg.participantes[j + 1], cfg.problemas[i + 1]))] >>
               \o DetalleDe(Tail(cs), m, asignadosI \cup {i}, asignadosJ \cup {j}, cfg)

\* the detail without the duplicate checks of lines 1189-1195
AsignacionesDetalleSinControl(m, conf) ==
  LET cs == CeldasEnOrden(m)
  IN [k \in 1 .. Len(cs) |->
        [problema_idx |-> cs[k][1],
         participante_idx |-> cs[k][2],
         prioridad |-> m[cs[k][1]][cs[k][2]],
         tiempo_estimado |->
           Max2(30, EstimarTiempoSeguro(conf.participantes[cs[k][2] + 1],
                                        conf.problemas[cs[k][1] + 1]))]]

\* _generar_asignaciones_detalle
AsignacionesDetalle(m, cfg) ==
  Unico({DetalleDe(cs, m, {}, {}, cfg) : cs \in {CeldasEnOrden(m)}})

RECURSIVE SolucionesDetalladas(_, _, _)
\* the loop of _generar_resultado_final: a solution without assignments is
\* skipped, solucion_id is its rank in top_soluciones
SolucionesDetalladas(top, idx, cfg) ==
  IF idx > Len(top) THEN <<>>
  ELSE Unico({ IF detalle = <<>> THEN <<>>
               ELSE << [solucion_id |-> idx,
                        matriz_asignacion |-> top[idx].cromosoma,
                        fitness |-> top[idx].fitness,
                        es_solucion_valida |-> top[idx].es_valido,
                        asignaciones_detalle |-> detalle,
                        tiempo_total_estimado |->
                          SumSeq(Campo(detalle, "tiempo_estimado"))] >> :
               detalle \in {AsignacionesDetalle(top[idx].cromosoma, cfg)} })
       \o SolucionesDetalladas(top, idx + 1, cfg)

\* _generar_resultado_final
GenerarResultadoFinal(top, generaciones_ejecutadas, historial, cfg) ==
  IF top = <<>> THEN ErrorDe("RuntimeError", MsgNingunaSolucion)
  ELSE Unico({ IF soluciones = <<>> THEN ErrorDe("RuntimeError", MsgSinSoluciones)
               ELSE [exito |-> TRUE,
                     top_3_soluciones |-> soluciones,
                     generaciones_ejecutadas |-> generaciones_ejecutadas,
                     historial_fitness |-> historial] :
               soluciones \in {SolucionesDetalladas(top, 1, cfg)} })

\* AlgoritmoGenetico.generar_resumen_asignacion(solucion), lines 1290-1296:
\* the argument is not read
GenerarResumenAsignacion(solucion, top, cfg) ==
  IF top # <<>> THEN AsignacionesDetalle(top[1].cromosoma, cfg) ELSE <<>>

\* ------------------------------------------------------------------------
\* /optimizar (src/api/routes/asignaciones.py): what the endpoint passes to
\* AlgoritmoGeneticoCoderush
\* ------------------------------------------------------------------------
\* a dict has none of the attributes the evaluator looks up with hasattr /
\* getattr: every lookup takes its default
ParticipanteDict ==
  [tasa |-> Ausente, experiencia |-> Ausente, competencias_previas |-> Ausente,
   problemas_resueltos_total |-> Ausente]

ProblemaDict ==
  [puntos_totales |-> Ausente, puntos_base |-> Ausente, tiempo_limite |-> Ausente,
   nivel_dificultad |-> "medio"]

\* lines 248-264: the participants kept, as a number (the best by
\* tasa_exito_historica + 0.3 * experiencia when the configured team size is
\* smaller than the list; otherwise all of them)
OptimizarNumParticipantes(participantes, tamanio_equipo) ==
  IF tamanio_equipo # Ausente /\ tamanio_equipo # 0 /\ tamanio_equipo < Len(participantes)
  THEN tamanio_equipo
  ELSE Len(participantes)

\* lines 267-279: at most as many problems as participants kept
OptimizarNumProblemas(problemas, num_participantes) ==
  Min2(Len(problemas), num_participantes)

\* lines 241-317: the arguments of the AlgoritmoGeneticoCoderush constructor
OptimizarArgumentos(req) ==
  LET na == OptimizarNumParticipantes(req.participantes, req.tamanio_equipo)
      np == OptimizarNumProblemas(req.problemas, na)
  IN [problemas |-> [k \in 1 .. np |-> ProblemaDict],
      participantes |-> [k \in 1 .. na |-> ParticipanteDict],
      tamanio_equipo |-> na]

\* the arguments each entry path gives to AlgoritmoGeneticoCoderush
ArgumentosDe(req) ==
  IF req.via = "optimizar" THEN OptimizarArgumentos(req)
  ELSE [problemas |-> req.problemas,
        participantes |-> req.participantes,
        tamanio_equipo |-> req.tamanio_equipo]

MsgHttpSinDatos == "Debe haber al menos un participante y un problema seleccionado"

\* the error the entry path ends with before any population exists, or
\* "ok": the HTTP 400 of /optimizar (lines 282-287) or the ValueError of
\* the constructors
ValidarEntrada(req) ==
  LET args == ArgumentosDe(req)
  IN IF req.via = "optimizar" /\ (args.participantes = <<>> \/ args.problemas = <<>>)
     THEN MsgHttpSinDatos
     ELSE IF req.via = "wrapper"
          THEN WrapperValidar(args.problemas, args.participantes, args.tamanio_equipo)
          ELSE CoderushValidar(args.problemas, args.participantes, args.tamanio_equipo)

ClaseDeError(mensaje) ==
  IF mensaje = MsgHttpSinDatos THEN "HTTPException" ELSE "ValueError"

\* ------------------------------------------------------------------------
\* Inputs of the model
\* ------------------------------------------------------------------------
Ana ==
  [tasa |-> 900, experiencia |-> Ausente, competencias_previas |-> 10,
   problemas_resueltos_total |-> 50]

Beto ==
  [tasa |-> 500, experiencia |-> Ausente, competencias_previas |-> 0,
   problemas_resueltos_total |-> 0]

Cora ==
  [tasa |-> 950, experiencia |-> Ausente, competencias_previas |-> 20,
   problemas_resueltos_total |-> 100]

Facil ==
  [puntos_totales |-> 120, puntos_base |-> Ausente, tiempo_limite |-> 45,
   nivel_dificultad |-> "facil"]

Dificil ==
  [puntos_totales |-> 300, puntos_base |-> Ausente, tiempo_limite |-> 75,
   nivel_dificultad |-> "dificil"]

Largo ==
  [puntos_totales |-> 100, puntos_base |-> Ausente, tiempo_limite |-> 1000,
   nivel_dificultad |-> "muy_facil"]

\* the highest success rate, no experience: the same (capped) compatibility
\* as Cora, a longer estimated time
Dana ==
  [tasa |-> 951, experiencia |-> Ausente, competencias_previas |-> 0,
   problemas_resueltos_total |-> 0]

Peticion(via, problemas, participantes, equipo, minutos, poblacion, generaciones) ==
  [via |-> via, problemas |-> problemas, participantes |-> participantes,
   tamanio_equipo |-> equipo, tiempo_total_minutos |-> minutos,
   poblacion_size |-> poblacion, generaciones |-> generaciones]

\* requests that are rejected or accepted by the validation: every entry
\* path, empty and non-empty lists, every team size around the list length
PeticionesDeValidacion ==
  LET todas == {Peticion(via, problemas, participantes, equipo, 300, 3, 1) :
                  via \in {"core", "wrapper", "optimizar"},
                  problemas \in {<<>>, <<Facil>>},
                  participantes \in {<<>>, <<Ana>>, <<Ana, Beto>>},
                  equipo \in {Ausente, 0, 1, 2, 3}}
  \* ConfiguracionCompetencia.tamanio_equipo is declared gt=0
  IN {req \in todas : ~(req.via = "optimizar" /\ req.tamanio_equipo = 0)}

\* requests whose run is followed through the generations
PeticionesDeEjecucion ==
  { Peticion("core", <<Facil, Dificil>>, <<Ana, Beto>>, 2, Ausente, 3, 1),
    Peticion("core", <<Facil>>, <<Ana, Beto>>, 1, Ausente, 4, 1),
    Peticion("core", <<Dificil>>, <<Cora>>, 1, Ausente, 4, 1),
    Peticion("wrapper", <<Largo>>, <<Cora>>, Ausente, Ausente, 3, 7),
    Peticion("core", <<Facil>>, <<Ana, Beto>>, 2, Ausente, 3, 0),
    Peticion("core", <<Facil>>, <<Ana>>, 1, Ausente, 1, 1),
    Peticion("optimizar", <<Facil, Dificil>>, <<Ana, Beto>>, 2, 60, 3, 1) }

Peticiones == PeticionesDeValidacion \cup PeticionesDeEjecucion

\* requests whose run goes through many generations: one whose best fitness
\* stays below 0.98 and never moves, one in which a child can be better than
\* every individual of the initial population, one that records its history
\* twice and whose best individual may be alone in the population
PeticionesDeEvolucion ==
  { Peticion("core", <<Dificil>>, <<Cora>>, 1, Ausente, 3, 32),
    Peticion("core", <<Facil>>, <<Cora, Dana>>, 1, Ausente, 4, 2),
    Peticion("core", <<Facil>>, <<Cora, Dana>>, 1, Ausente, 3, 11) }

\* requests with several tasks, several participants and a population that
\* has children: a full team (as many members as participants and as tasks),
\* in 3x3 and in 2x2, and a team smaller than the number of tasks
PeticionesDeVariacion ==
  { Peticion("core", <<Facil, Dificil, Largo>>, <<Ana, Beto, Cora>>, 3, Ausente, 4, 1),
    Peticion("core", <<Facil, Dificil>>, <<Ana, Beto>>, 2, Ausente, 4, 1),
    Peticion("core", <<Facil, Dificil>>, <<Ana, Beto>>, 1, Ausente, 4, 1) }

\* the initial populations followed for these requests: all of them when the
\* team has one member; with a larger team those in which
\* _crear_individuo_aleatorio gives task i to participant i with priority 3
\* and _crear_individuo_balanceado gives task i to participant i + 1
PoblacionesDeMuestra(conf) ==
  { c \in PoblacionesIniciales(conf) :
      \/ conf.tamanio_equipo = 1
      \/ \A i \in Idx(conf.num_problemas) :
           /\ \A j \in Idx(conf.num_participantes) :
                c[1][i][j] = IF i = j THEN 3 ELSE 0
           /\ c[3][i][(i + 1) % conf.num_participantes] # 0 }

\* ------------------------------------------------------------------------
\* State
\* ------------------------------------------------------------------------
VARIABLES
  pc,                    \* position of the run
  peticion,              \* the request being served
  cfg,                   \* the fields set by AlgoritmoGeneticoCoderush.__init__
  poblacion,             \* ejecutar: poblacion
  nueva_poblacion,       \* _evolucionar_generacion: nueva_poblacion
  padre1, padre2,        \* the chromosomes of the selected parents
  intentos,              \* _evolucionar_generacion: intentos
  top_soluciones,        \* self.top_soluciones
  generacion,            \* loop variable of ejecutar, Ausente before the loop assigns it
  generaciones_sin_mejora,
  fitness_unicos,        \* self.fitness_unicos
  historial_fitness,     \* self.historial_fitness
  resultado,             \* what the run returned or raised
  fallos,                \* internal exceptions met so far
  validos_iniciales,     \* ejecutar: individuos_validos
  evolucionadas,         \* calls of _evolucionar_generacion so far
  cache_evaluaciones     \* EvaluadorFitnessAvanzado.cache_evaluaciones

vars == <<pc, peticion, cfg, poblacion, nueva_poblacion, padre1, padre2, intentos,
          top_soluciones, generacion, generaciones_sin_mejora, fitness_unicos,
          historial_fitness, resultado, fallos, validos_iniciales, evolucionadas,
          cache_evaluaciones>>

SinResultado == [exito |-> FALSE, clase |-> "", mensaje |-> ""]

SinPadre == MatrizCero(0, 0)

PeticionNula == Peticion("", <<>>, <<>>, Ausente, Ausente, 0, 0)

Init ==
  /\ pc = "nuevo"
  /\ peticion = PeticionNula
  /\ cfg = CoderushConfig(<<>>, <<>>, Ausente, 0, 0)
  /\ poblacion = <<>>
  /\ nueva_poblacion = <<>>
  /\ padre1 = SinPadre
  /\ padre2 = SinPadre
  /\ intentos = 0
  /\ top_soluciones = <<>>
  /\ generacion = Ausente
  /\ generaciones_sin_mejora = 0
  /\ fitness_unicos = {}
  /\ historial_fitness = <<>>
  /\ resultado = SinResultado
  /\ fallos = 0
  /\ validos_iniciales = 0
  /\ evolucionadas = 0
  /\ cache_evaluaciones = {}

\* ------------------------------------------------------------------------
\* Steps of a run
\* ------------------------------------------------------------------------
\* the individuals of a list of chromosomes after the evaluation loop of
\* ejecutar; the evaluations at the positions F meet an internal exception
EvaluarPoblacion(cromosomas, F) ==
  [k \in 1 .. Len(cromosomas) |->
     IF k \in F THEN Invalido(cromosomas[k])
     ELSE Evaluar(cromosomas[k], cfg.problemas, cfg.participantes)]

\* the positions whose evaluation may still fail
FallosPosibles(n) ==
  {F \in SUBSET (1 .. n) : Cardinality(F) <= MaxFallos - fallos}

FitnessValidos(pob) ==
  {pob[k].fitness : k \in {x \in 1 .. Len(pob) : pob[x].es_valido}}

NumValidos(pob) == Cardinality({k \in 1 .. Len(pob) : pob[k].es_valido})

\* the set keeps the values of the population just evaluated and nothing else
SoloFitnessDeLaGeneracion(unicos, pob) == FitnessValidos(pob)

\* lines 759-765 and 795-801: fitness_unicos.add(round(fitness, 6)) for
\* every valid individual of the population just evaluated
AgregarFitnessUnicos(unicos, pob) == unicos \cup FitnessValidos(pob)

\* lines 892-894: the probability of mutating a child, milli
ProbMutacionAdaptativa(unicos) ==
  IF Cardinality(unicos) < UmbralDiversidad
  THEN (ProbMutacion * 3) \div 2
  ELSE ProbMutacion

Terminar(res) ==
  /\ resultado' = res
  /\ pc' = "fin"

\* the constructors and the request handling before them, for a request of
\* the set peticiones
ConstruirDe(peticiones) ==
  /\ pc = "nuevo"
  /\ \E req \in peticiones :
       LET args == ArgumentosDe(req)
           validacion == ValidarEntrada(req)
       IN /\ peticion' = req
          /\ IF validacion # "ok"
             THEN /\ Terminar(ErrorDe(ClaseDeError(validacion), validacion))
                  /\ UNCHANGED cfg
             ELSE /\ cfg' = CoderushConfig(args.problemas, args.participantes,
                                           args.tamanio_equipo, req.poblacion_size,
                                           req.generaciones)
                  /\ pc' = "listo"
                  /\ UNCHANGED resultado
  /\ UNCHANGED <<cache_evaluaciones, poblacion, nueva_poblacion, padre1, padre2, intentos, top_soluciones,
                 generacion, generaciones_sin_mejora, fitness_unicos, historial_fitness,
                 fallos, validos_iniciales, evolucionadas>>

Construir == ConstruirDe(Peticiones)

\* the run goes on whatever the number of valid individuals
SinInicioValidoSinControl(pob) == FALSE

\* line 772: no individual of the initial population is valid
SinInicioValido(pob) == NumValidos(pob) = 0

\* ejecutar, lines 755-782: initial population, its evaluation, the check
\* for a feasible start and the first top solutions
IniciarEjecucionCon(poblaciones) ==
  /\ pc = "listo"
  /\ \E cromosomas \in poblaciones :
       \E F \in FallosPosibles(Len(cromosomas)) :
         \E pob \in {EvaluarPoblacion(cromosomas, F)} :
            /\ poblacion' = pob
            /\ fallos' = fallos + Cardinality(F)
            /\ validos_iniciales' = NumValidos(pob)
            /\ fitness_unicos' = AgregarFitnessUnicos(fitness_unicos, pob)
            /\ IF SinInicioValido(pob)
               THEN /\ Terminar(ErrorDe("RuntimeError", MsgSinInicioValido))
                    /\ UNCHANGED top_soluciones
               ELSE /\ top_soluciones' = ActualizarTopSoluciones(pob, top_soluciones)
                    /\ pc' = "bucle"
                    /\ UNCHANGED resultado
  /\ generaciones_sin_mejora' = 0
  /\ UNCHANGED <<cache_evaluaciones, peticion, cfg, nueva_poblacion, padre1, padre2, intentos, generacion,
                 historial_fitness, evolucionadas>>

IniciarEjecucion == IniciarEjecucionCon(PoblacionesIniciales(cfg))

\* lines 844-850: an exception inside the body of generation g
ManejarErrorGeneracion(g) ==
  IF g < GeneracionCritica
  THEN Terminar(ErrorDe("RuntimeError", MsgErrorCritico))
  ELSE /\ pc' = "resultado"
       /\ UNCHANGED resultado

\* the for loop takes its next value and _evolucionar_generacion copies the
\* elite (lines 784-787, 861-871); poblacion_ordenada[i] raises IndexError
\* when the population is smaller than the elite
IniciarGeneracion ==
  /\ pc = "bucle"
  /\ generacion + 1 < cfg.generaciones_max
  /\ generacion' = generacion + 1
  /\ evolucionadas' = evolucionadas + 1
  /\ IF Len(poblacion) < cfg.elite_size
     THEN /\ ManejarErrorGeneracion(generacion + 1)
          /\ UNCHANGED nueva_poblacion
     ELSE /\ nueva_poblacion' =
               [k \in 1 .. cfg.elite_size |->
                  Individuo(OrdenarPorFitness(poblacion)[k].cromosoma)]
          /\ pc' = IF cfg.elite_size < cfg.poblacion_size THEN "padres" ELSE "evaluar"
          /\ UNCHANGED resultado
  /\ UNCHANGED <<cache_evaluaciones, peticion, cfg, poblacion, padre1, padre2, intentos, top_soluciones,
                 generaciones_sin_mejora, fitness_unicos, historial_fitness, fallos,
                 validos_iniciales>>

\* the for loop is exhausted (line 784)
TerminarBucle ==
  /\ pc = "bucle"
  /\ generacion + 1 >= cfg.generaciones_max
  /\ pc' = "resultado"
  /\ UNCHANGED <<cache_evaluaciones, peticion, cfg, poblacion, nueva_poblacion, padre1, padre2, intentos,
                 top_soluciones, generacion, generaciones_sin_mejora, fitness_unicos,
                 historial_fitness, resultado, fallos, validos_iniciales, evolucionadas>>

\* lines 876-880: two tournaments.  _seleccion_torneo can return any
\* individual of the population (it samples torneo_size of them and returns
\* the best of the sample or, one time in ten, any of the sample)
SeleccionarPadres ==
  /\ pc = "padres"
  /\ \E a, b \in 1 .. Len(poblacion) :
       /\ padre1' = poblacion[a].cromosoma
       /\ padre2' = poblacion[b].cromosoma
  /\ intentos' = 0
  /\ pc' = "reseleccion"
  /\ UNCHANGED <<cache_evaluaciones, peticion, cfg, poblacion, nueva_poblacion, top_soluciones, generacion,
                 generaciones_sin_mejora, fitness_unicos, historial_fitness, resultado,
                 fallos, validos_iniciales, evolucionadas>>

\* the while loop without its bound on intentos
PadresIgualesSinLimite == padre1 = padre2

\* the condition of the while loop of line 881
PadresIguales ==
  /\ padre1 = padre2
  /\ intentos < MaxIntentos

\* lines 881-883: one more tournament for the second parent
Reseleccionar ==
  /\ pc = "reseleccion"
  /\ PadresIguales
  /\ \E b \in 1 .. Len(poblacion) : padre2' = poblacion[b].cromosoma
  /\ intentos' = intentos + 1
  /\ UNCHANGED <<cache_evaluaciones, pc, peticion, cfg, poblacion, nueva_poblacion, padre1, top_soluciones,
                 generacion, generaciones_sin_mejora, fitness_unicos, historial_fitness,
                 resultado, fallos, validos_iniciales, evolucionadas>>

\* the child is written over the chromosome of its first parent instead of
\* a copy of it
CrearHijoEnElPadre ==
  /\ pc = "reseleccion"
  /\ ~PadresIguales
  /\ \E h \in HijosPosibles(padre1, padre2, cfg) :
       /\ nueva_poblacion' = Append(nueva_poblacion, Individuo(h))
       /\ \E a \in {k \in 1 .. Len(poblacion) : poblacion[k].cromosoma = padre1} :
            poblacion' = [poblacion EXCEPT ![a].cromosoma = h]
  /\ pc' = IF Len(nueva_poblacion) + 1 < cfg.poblacion_size THEN "padres" ELSE "evaluar"
  /\ UNCHANGED <<cache_evaluaciones, peticion, cfg, padre1, padre2, intentos, top_soluciones,
                 generacion, generaciones_sin_mejora, fitness_unicos, historial_fitness,
                 resultado, fallos, validos_iniciales, evolucionadas>>

\* lines 885-900: crossover, mutation, the child joins nueva_poblacion
CrearHijo ==
  /\ pc = "reseleccion"
  /\ ~PadresIguales
  /\ \E h \in HijosPosibles(padre1, padre2, cfg) :
       nueva_poblacion' = Append(nueva_poblacion, Individuo(h))
  /\ pc' = IF Len(nueva_poblacion) + 1 < cfg.poblacion_size THEN "padres" ELSE "evaluar"
  /\ UNCHANGED <<cache_evaluaciones, peticion, cfg, poblacion, padre1, padre2, intentos, top_soluciones,
                 generacion, generaciones_sin_mejora, fitness_unicos, historial_fitness,
                 resultado, fallos, validos_iniciales, evolucionadas>>

MejorFitness(top) == IF top = <<>> THEN 0 ELSE top[1].fitness

\* the record appended to historial_fitness (lines 814-825)
RegistroHistorial(g, top, pob) ==
  LET validos == SelectSeq(pob, LAMBDA x : x.es_valido)
  IN [generacion |-> g,
      mejor_fitness |-> MejorFitness(top),
      fitness_promedio |-> IF validos = <<>> THEN 0
                           ELSE SumSeq(Campo(validos, "fitness")) \div Len(validos),
      individuos_validos |-> Len(validos)]

\* the count that stops at no improvement: always one more
ContarSinReinicio(mejora, sin_mejora) == sin_mejora + 1

\* lines 829-833: generaciones_sin_mejora after a generation whose best
\* fitness moved by mejora
ContarSinMejora(mejora, sin_mejora) ==
  IF mejora > UmbralMejora THEN 0 ELSE sin_mejora + 1

\* the loop without the break of line 836
ParadaSinEstancamiento(sin_mejora, mejor_fitness) == mejor_fitness >= FitnessOptimo

\* lines 836-842: the two breaks at the end of the body of a generation
ParadaTemprana(sin_mejora, mejor_fitness) ==
  sin_mejora >= MaxSinMejora \/ mejor_fitness >= FitnessOptimo

\* lines 789-842: the new population is evaluated and replaces the old one,
\* the top solutions, the history and the stop conditions are updated
EvaluarGeneracion ==
  /\ pc = "evaluar"
  /\ \E F \in FallosPosibles(Len(nueva_poblacion)) :
     \E pob \in {EvaluarPoblacion(Campo(SubSeq(nueva_poblacion, 1, cfg.poblacion_size),
                                        "cromosoma"), F)} :
     \E top \in {ActualizarTopSoluciones(pob, top_soluciones)} :
       LET fitness_anterior == MejorFitness(top_soluciones)
           mejora == MejorFitness(top) - fitness_anterior
           sin_mejora == ContarSinMejora(mejora, generaciones_sin_mejora)
       IN /\ poblacion' = pob
          /\ fallos' = fallos + Cardinality(F)
          /\ fitness_unicos' = AgregarFitnessUnicos(fitness_unicos, pob)
          /\ top_soluciones' = top
          /\ historial_fitness' =
               IF generacion % CadenciaHistorial = 0
               THEN Append(historial_fitness, RegistroHistorial(generacion, top, pob))
               ELSE historial_fitness
          /\ generaciones_sin_mejora' = sin_mejora
          /\ pc' = IF ParadaTemprana(sin_mejora, MejorFitness(top))
                   THEN "resultado" ELSE "bucle"
  /\ nueva_poblacion' = <<>>
  /\ padre1' = SinPadre
  /\ padre2' = SinPadre
  /\ intentos' = 0
  /\ UNCHANGED <<cache_evaluaciones, peticion, cfg, generacion, resultado, validos_iniciales, evolucionadas>>

\* an internal exception escapes from the body of the generation loop
\* (from _evolucionar_generacion or from the code after it) and reaches the
\* handler of lines 844-850
FallaGeneracion ==
  /\ pc \in {"padres", "reseleccion", "evaluar"}
  /\ fallos < MaxFallos
  /\ fallos' = fallos + 1
  /\ ManejarErrorGeneracion(generacion)
  /\ UNCHANGED <<cache_evaluaciones, peticion, cfg, poblacion, nueva_poblacion, padre1, padre2, intentos,
                 top_soluciones, generacion, generaciones_sin_mejora, fitness_unicos,
                 historial_fitness, validos_iniciales, evolucionadas>>

\* lines 852-859: _generar_resultado_final(generacion + 1, ...); the name
\* generacion is unbound when the loop body never ran
GenerarResultado ==
  /\ pc = "resultado"
  /\ IF generacion = Ausente
     THEN Terminar(ErrorDe("RuntimeError", MsgGeneracionNoDefinida))
     ELSE Terminar(GenerarResultadoFinal(top_soluciones, generacion + 1,
                                         historial_fitness, cfg))
  /\ UNCHANGED <<cache_evaluaciones, peticion, cfg, poblacion, nueva_poblacion, padre1, padre2, intentos,
                 top_soluciones, generacion, generaciones_sin_mejora, fitness_unicos,
                 historial_fitness, fallos, validos_iniciales, evolucionadas>>

Next ==
  \/ Construir
  \/ IniciarEjecucion
  \/ IniciarGeneracion
  \/ TerminarBucle
  \/ SeleccionarPadres
  \/ Reseleccionar
  \/ CrearHijo
  \/ EvaluarGeneracion
  \/ FallaGeneracion
  \/ GenerarResultado

Spec == Init /\ [][Next]_vars

\* ejecutar runs to its end: no step of it waits for anything
SpecJusta == Spec /\ WF_vars(Next)

\* ------------------------------------------------------------------------
\* The runs of the requests of PeticionesDeEvolucion
\* ------------------------------------------------------------------------
ConstruirEvolucion == ConstruirDe(PeticionesDeEvolucion)

NextEvolucion ==
  \/ ConstruirEvolucion
  \/ IniciarEjecucion
  \/ IniciarGeneracion
  \/ TerminarBucle
  \/ SeleccionarPadres
  \/ Reseleccionar
  \/ CrearHijo
  \/ EvaluarGeneracion
  \/ FallaGeneracion
  \/ GenerarResultado

SpecEvolucion == Init /\ [][NextEvolucion]_vars

\* ------------------------------------------------------------------------
\* The runs of the requests of PeticionesDeVariacion
\* ------------------------------------------------------------------------
NextVariacion ==
  \/ ConstruirDe(PeticionesDeVariacion)
  \/ IniciarEjecucionCon(PoblacionesDeMuestra(cfg))
  \/ IniciarGeneracion
  \/ TerminarBucle
  \/ SeleccionarPadres
  \/ Reseleccionar
  \/ CrearHijo
  \/ EvaluarGeneracion
  \/ FallaGeneracion
  \/ GenerarResultado

SpecVariacion == Init /\ [][NextVariacion]_vars

\* ------------------------------------------------------------------------
\* _generar_resultado_final applied to the solution of any matrix: the
\* chromosome of top_soluciones[0] is any 2 x 2 matrix over 0..3, evaluated
\* as evaluar_individuo evaluates it
\* ------------------------------------------------------------------------
Matrices(np, na) == [Idx(np) -> [Idx(na) -> 0 .. 3]]

PeticionDetalle == Peticion("core", <<Facil, Dificil>>, <<Ana, Beto>>, 2, Ausente, 3, 1)

InitDetalle ==
  /\ pc = "resultado"
  /\ peticion = PeticionDetalle
  /\ cfg = CoderushConfig(PeticionDetalle.problemas, PeticionDetalle.participantes,
                          PeticionDetalle.tamanio_equipo, PeticionDetalle.poblacion_size,
                          PeticionDetalle.generaciones)
  /\ poblacion = <<>>
  /\ nueva_poblacion = <<>>
  /\ padre1 = SinPadre
  /\ padre2 = SinPadre
  /\ intentos = 0
  /\ \E m \in Matrices(2, 2) :
       top_soluciones = << Evaluar(m, PeticionDetalle.problemas,
                                   PeticionDetalle.participantes) >>
  /\ generacion = 0
  /\ generaciones_sin_mejora = 0
  /\ fitness_unicos = {}
  /\ historial_fitness = <<>>
  /\ resultado = SinResultado
  /\ fallos = 0
  /\ validos_iniciales = 1
  /\ evolucionadas = 1
  /\ cache_evaluaciones = {}

NextDetalle == GenerarResultado

SpecDetalle == InitDetalle /\ [][NextDetalle]_vars

\* ------------------------------------------------------------------------
\* VisualizadorFitness (src/core/visualizaciones.py): the dense series built
\* from the sparse history.  A point is a record [generacion, mejor_fitness,
\* fitness_promedio, peor_fitness, interpolado]; peor_fitness = Ausente
\* stands for a dict without the key 'peor_fitness'.  Fitness values are
\* micro values.  Each random draw is a choice from a set of values of its
\* distribution.
\* ------------------------------------------------------------------------
\* np.random.normal(0, 0.005), micro
RuidoNormal == {-20000, 0, 20000}

\* np.random.uniform(0.7, 0.95), milli
Uniforme7095 == {700, 950}

\* np.random.uniform(0.01, 0.1), micro
Uniforme01 == {10000, 100000}

\* np.random.uniform(0.6, 0.8), milli
Uniforme6080 == {600, 800}

\* _validar_orden_fitness with the draw u of uniform(0.6, 0.8)
ValidarOrdenFitness(punto, u) ==
  LET mejor == punto.mejor_fitness
      promedio == IF punto.fitness_promedio > mejor THEN mejor
                  ELSE punto.fitness_promedio
      dado == IF punto.peor_fitness = Ausente THEN 0 ELSE punto.peor_fitness
      corregido == IF dado > promedio THEN (promedio * 9) \div 10 ELSE dado
      peor == IF punto.peor_fitness = Ausente \/ corregido <= 0
              THEN Max2(0, (promedio * u) \div 1000)
              ELSE corregido
  IN [punto EXCEPT !.mejor_fitness = mejor,
                   !.fitness_promedio = promedio,
                   !.peor_fitness = peor]

PuntosValidados(punto) == {ValidarOrdenFitness(punto, u) : u \in Uniforme6080}

\* _interpolar_valor with factor j / (n + 1) and the draw ruido
InterpolarValor(valor_inicial, valor_final, j, n, ruido) ==
  Clamp(0, valor_inicial + ((valor_final - valor_inicial) * j) \div (n + 1) + ruido,
        1000000)

\* lines 82-118: the interpolated point number j of n between two records
PuntosInterpolados(actual, siguiente, j, n) ==
  UNION { PuntosValidados(
            [generacion |-> actual.generacion + j,
             mejor_fitness |-> t[1],
             fitness_promedio |-> Min2(t[2], t[1]),
             peor_fitness |->
               Max2(0, Min2((Min2(t[2], t[1]) * t[3]) \div 1000,
                            Min2(t[2], t[1]) - t[4])),
             interpolado |-> TRUE]) :
          t \in { <<InterpolarValor(actual.mejor_fitness, siguiente.mejor_fitness,
                                    j, n, r1),
                    InterpolarValor(actual.fitness_promedio, siguiente.fitness_promedio,
                                    j, n, r2),
                    u1, u2>> :
                  r1 \in RuidoNormal, r2 \in RuidoNormal,
                  u1 \in Uniforme7095, u2 \in Uniforme01 } }

\* no point is interpolated between two records
SinIntermedios(actual, siguiente, j, n) == {<<>>}

RECURSIVE Intermedios(_, _, _, _)
Intermedios(actual, siguiente, j, n) ==
  IF j > n THEN {<<>>}
  ELSE {<<p>> \o resto : p \in PuntosInterpolados(actual, siguiente, j, n),
                           resto \in Intermedios(actual, siguiente, j + 1, n)}

RECURSIVE SeriesDesde(_, _)
\* the loop of lines 67-118 from record i on, then the last record
SeriesDesde(historial, i) ==
  IF i >= Len(historial) THEN {<<p>> : p \in PuntosValidados(historial[Len(historial)])}
  ELSE {<<p>> \o medio \o resto :
          p \in PuntosValidados(historial[i]),
          medio \in Intermedios(historial[i], historial[i + 1], 1,
                                 historial[i + 1].generacion - historial[i].generacion - 1),
          resto \in SeriesDesde(historial, i + 1)}

\* _extrapolar_generaciones: the series it can return
ExtrapolarGeneraciones(historial_basico) ==
  IF Len(historial_basico) <= 1 THEN {historial_basico}
  ELSE SeriesDesde(historial_basico, 1)

\* the records of the sparse history at generation g, with or without a
\* worst value
PuntosDeHistorial(g) ==
  [generacion : {g}, mejor_fitness : {0, 500000, 1000000},
   fitness_promedio : {0, 500000, 1000000},
   peor_fitness : {Ausente, 500000, 1000000}, interpolado : {FALSE}]

\* the sparse histories: none, one record, two records with one generation
\* between them, or three records of which the first two are consecutive
HistorialesBasicos ==
  LET punto(g, mejor) ==
        [generacion |-> g, mejor_fitness |-> mejor, fitness_promedio |-> 500000,
         peor_fitness |-> Ausente, interpolado |-> FALSE]
  IN {<<>>} \cup {<<p>> : p \in PuntosDeHistorial(0)}
            \cup {<<p, q>> : p \in PuntosDeHistorial(0), q \in PuntosDeHistorial(2)}
            \cup {<<punto(0, 0), punto(1, 500000), punto(3, 1000000)>>}

InitTraza ==
  /\ pc = "traza"
  /\ peticion = PeticionNula
  /\ cfg = CoderushConfig(<<>>, <<>>, Ausente, 0, 0)
  /\ poblacion = <<>>
  /\ nueva_poblacion = <<>>
  /\ padre1 = SinPadre
  /\ padre2 = SinPadre
  /\ intentos = 0
  /\ top_soluciones = <<>>
  /\ generacion = Ausente
  /\ generaciones_sin_mejora = 0
  /\ fitness_unicos = {}
  /\ historial_fitness \in HistorialesBasicos
  /\ resultado = SinResultado
  /\ fallos = 0
  /\ validos_iniciales = 0
  /\ evolucionadas = 0
  /\ cache_evaluaciones = {}

\* procesar_historial_completo applied to historial_fitness: datos_grafica
\* of what it returns (empty for an empty history)
ProcesarHistorial ==
  /\ pc = "traza"
  /\ \E datos \in (IF historial_fitness = <<>> THEN {<<>>}
                    ELSE ExtrapolarGeneraciones(historial_fitness)) :
       Terminar([exito |-> TRUE, datos_grafica |-> datos])
  /\ UNCHANGED <<cache_evaluaciones, peticion, cfg, poblacion, nueva_poblacion, padre1, padre2, intentos,
                 top_soluciones, generacion, generaciones_sin_mejora, fitness_unicos,
                 historial_fitness, fallos, validos_iniciales, evolucionadas>>

SpecTraza == InitTraza /\ [][ProcesarHistorial]_vars

\* ------------------------------------------------------------------------
\* EvaluadorFitnessAvanzado (src/core/evaluador.py), for participants and
\* problems that define no method and no attribute id or disponibilidad, as
\* the inputs of the model: every probability and compatibility takes its
\* default 0.5.
\* ------------------------------------------------------------------------
\* _validar_restricciones: the number of violations, all of them 'CRÍTICA'
\* (a participant with more than one problem)
ViolacionesCriticas(m) ==
  Cardinality({j \in Columnas(m) : Cardinality({i \in Filas(m) : m[i][j] > 0}) > 1})

\* _evaluar_componentes_fitness: the four normalised components, micro
ComponentesAvanzado(m, problemas) ==
  LET puntos(prob) == IF prob.puntos_totales # Ausente THEN prob.puntos_totales
                      ELSE IF prob.puntos_base # Ausente THEN prob.puntos_base
                           ELSE 100
      cs == CeldasEnOrden(m)
      \* sum of puntos * 0.5, milli
      puntuacion_total == SumSeq([k \in 1 .. Len(cs) |-> puntos(problemas[cs[k][1] + 1]) * 500])
      puntuacion_max == SumSeq([k \in 1 .. Len(problemas) |-> puntos(problemas[k])])
      carga(j) == SumSeq([k \in 1 .. Len(cs) |->
                    IF cs[k][2] = j THEN TiempoLimiteCrudo(problemas[cs[k][1] + 1]) ELSE 0])
      tiempos == SelectSeq([k \in 1 .. Cardinality(Columnas(m)) |-> carga(k - 1)],
                           LAMBDA t : t > 0)
      n == Len(tiempos)
      sx == SumSeq(tiempos)
      sxx == SumSeq([k \in 1 .. n |-> tiempos[k] * tiempos[k]])
      \* 1 / (1 + var / max(media, 1)), numerator and denominator times n * n
      balance == IF n > 1
                 THEN (1000000 * Max2(sx * n, n * n))
                        \div (Max2(sx * n, n * n) + (n * sxx - sx * sx))
                 ELSE IF n = 1 THEN 1000000 ELSE 0
  IN [puntuacion |-> Min2((puntuacion_total * 1000) \div Max2(puntuacion_max, 1), 1000000),
      compatibilidad |-> IF cs = <<>> THEN 0 ELSE 500000,
      balance_carga |-> balance,
      probabilidad_exito |-> IF cs = <<>> THEN 0 ELSE 500000]

\* EvaluadorFitnessAvanzado.evaluar_individuo with the weights 0.4, 0.25,
\* 0.2, 0.15 in config; falla: an exception reaches the outer handler
\* (lines 144-151)
EvaluarAvanzado(cromosoma, problemas, participantes, falla) ==
  IF falla THEN [cromosoma |-> cromosoma, fitness |-> 100000, es_valido |-> FALSE]
  ELSE Unico({ LET fitness_total == (400 * t[1].puntuacion + 250 * t[1].compatibilidad
                                      + 200 * t[1].balance_carga
                                      + 150 * t[1].probabilidad_exito) \div 1000
                   penalizacion == Min2(500 * t[2], 900)
               IN [cromosoma |-> cromosoma,
                   fitness |-> IF t[2] > 0
                               THEN (fitness_total * (1000 - penalizacion)) \div 1000
                               ELSE fitness_total,
                   es_valido |-> t[2] = 0] :
               t \in {<<ComponentesAvanzado(cromosoma, problemas),
                         ViolacionesCriticas(cromosoma)>>} })

\* a fresh individual of any 2 x 2 matrix, about to be evaluated by one of
\* the two evaluators (peticion.via names the class)
InitEvaluador ==
  /\ pc = "evaluador"
  /\ \E clase \in {"EvaluadorFitness", "EvaluadorFitnessAvanzado"} :
       peticion = Peticion(clase, <<Facil, Dificil>>, <<Ana, Beto>>, 2, Ausente, 1, 0)
  /\ cfg = CoderushConfig(<<Facil, Dificil>>, <<Ana, Beto>>, 2, 1, 0)
  /\ \E m \in Matrices(2, 2) : poblacion = <<Individuo(m)>>
  /\ nueva_poblacion = <<>>
  /\ padre1 = SinPadre
  /\ padre2 = SinPadre
  /\ intentos = 0
  /\ top_soluciones = <<>>
  /\ generacion = Ausente
  /\ generaciones_sin_mejora = 0
  /\ fitness_unicos = {}
  /\ historial_fitness = <<>>
  /\ resultado = SinResultado
  /\ fallos = 0
  /\ validos_iniciales = 0
  /\ evolucionadas = 0
  /\ cache_evaluaciones = {}

\* one call of evaluar_individuo on the evaluator object, for the individual
\* passed last; it returns whatever happens inside.  EvaluadorFitnessAvanzado
\* looks the chromosome up in cache_evaluaciones first (the key is the hash
\* of the bytes of the chromosome and nothing else), copies the stored
\* result on a hit, and stores the result of a completed evaluation; the
\* outer handler stores nothing.  EvaluadorFitness keeps no cache.
EvaluarIndividuo ==
  /\ pc = "evaluador"
  /\ \E F \in FallosPosibles(1) :
       LET k == Len(poblacion)
           cromosoma == poblacion[k].cromosoma
           guardados == {e \in cache_evaluaciones : e.cromosoma = cromosoma}
           evaluado ==
             IF peticion.via = "EvaluadorFitness"
             THEN EvaluarPoblacion(<<cromosoma>>, F)[1]
             ELSE IF F = {} /\ guardados # {}
                  THEN Unico(guardados)
                  ELSE EvaluarAvanzado(cromosoma, cfg.problemas, cfg.participantes, F # {})
       IN /\ poblacion' = [poblacion EXCEPT ![k] = evaluado]
          /\ cache_evaluaciones' =
               IF peticion.via = "EvaluadorFitnessAvanzado" /\ F = {} /\ guardados = {}
               THEN cache_evaluaciones \cup {evaluado}
               ELSE cache_evaluaciones
          /\ fallos' = fallos + Cardinality(F)
  /\ pc' = IF Len(poblacion) = 1 THEN "llamada" ELSE "fin"
  /\ UNCHANGED <<peticion, cfg, nueva_poblacion, padre1, padre2, intentos,
                 top_soluciones, generacion, generaciones_sin_mejora, fitness_unicos,
                 historial_fitness, resultado, validos_iniciales, evolucionadas>>

\* the caller passes a fresh individual of the chromosome evaluated before
\* to the same evaluator object, with the same list of problems or with the
\* two problems in the other order
LlamarDeNuevo ==
  /\ pc = "llamada"
  /\ \E problemas \in {<<Facil, Dificil>>, <<Dificil, Facil>>} :
       cfg' = CoderushConfig(problemas, <<Ana, Beto>>, 2, 1, 0)
  /\ poblacion' = Append(poblacion, Individuo(poblacion[1].cromosoma))
  /\ pc' = "evaluador"
  /\ UNCHANGED <<cache_evaluaciones, peticion, nueva_poblacion, padre1, padre2,
                 intentos, top_soluciones, generacion, generaciones_sin_mejora,
                 fitness_unicos, historial_fitness, resultado, fallos,
                 validos_iniciales, evolucionadas>>

NextEvaluador == EvaluarIndividuo \/ LlamarDeNuevo

SpecEvaluador == InitEvaluador /\ [][NextEvaluador]_vars

\* ------------------------------------------------------------------------
\* Properties
\* ------------------------------------------------------------------------
\* the plans of the result, none before the run returns or when it raises
Planes == IF resultado.exito THEN resultado.top_3_soluciones ELSE <<>>

MaxDe(S) == CHOOSE x \in S : \A y \in S : y <= x

\* the (task, agent) pairs of a matrix
Pares(m) == Celdas(m)

\* parallel time of a plan: the largest per-agent sum of estimated times
TiempoParalelo(plan) ==
  LET d == plan.asignaciones_detalle
      agentes == {d[k].participante_idx : k \in 1 .. Len(d)}
      suma(j) == SumSeq(Campo(SelectSeq(d, LAMBDA a : a.participante_idx = j),
                              "tiempo_estimado"))
  IN MaxDe({suma(j) : j \in agentes})

\* the cells on which two matrices of the same shape agree
CeldasIguales(m1, m2) ==
  {c \in Filas(m1) \X Columnas(m1) : m1[c[1]][c[2]] = m2[c[1]][c[2]]}

\* C1: in every returned plan each task index and each agent index appears
\* in at most one assignment, whatever matrix the plan was built from
PlanesUnoAUno ==
  \A p \in 1 .. Len(Planes) :
    LET d == Planes[p].asignaciones_detalle
    IN \A a, b \in 1 .. Len(d) :
         a # b => /\ d[a].problema_idx # d[b].problema_idx
                  /\ d[a].participante_idx # d[b].participante_idx

\* a plan was returned for a matrix that has more non-zero cells than the
\* plan has assignments: some cell repeated a task or an agent
PlanDeMatrizConRepetidos ==
  \E p \in 1 .. Len(Planes) :
    Cardinality(Celdas(Planes[p].matriz_asignacion))
      > Len(Planes[p].asignaciones_detalle)

\* C2: the parallel time of every returned plan is at most the configured
\* tiempo_total_minutos
PlanesDentroDelTiempo ==
  peticion.tiempo_total_minutos # Ausente =>
    \A p \in 1 .. Len(Planes) :
      TiempoParalelo(Planes[p]) <= peticion.tiempo_total_minutos

\* C3: every returned plan has es_solucion_valida true and a fitness in
\* [0, 1] (0 .. 1000000 in millionths)
PlanesValidos ==
  \A p \in 1 .. Len(Planes) :
    /\ Planes[p].es_solucion_valida
    /\ Planes[p].fitness \in 0 .. 1000000

\* C4: two distinct returned plans agree on at most 10% of the cells or
\* differ in at least two (task, agent) pairs (stated for the runs in which
\* no evaluation and no generation met an exception)
PlanesDisimilares ==
  \A p, q \in 1 .. Len(Planes) :
    (p # q /\ fallos = 0) =>
      LET m1 == Planes[p].matriz_asignacion
          m2 == Planes[q].matriz_asignacion
          celdas == Cardinality(Filas(m1) \X Columnas(m1))
          distintos == (Pares(m1) \ Pares(m2)) \cup (Pares(m2) \ Pares(m1))
      IN \/ 10 * Cardinality(CeldasIguales(m1, m2)) <= celdas
         \/ Cardinality(distintos) >= 2

\* C5: a successful run returns 1 to 3 plans in non-increasing fitness
\* order; after every call of _actualizar_top_soluciones the first entry of
\* top_soluciones is a candidate of highest fitness among the population and
\* the previous top solutions
TopOrdenado ==
  /\ [](/\ resultado.exito => Len(Planes) \in 1 .. TopK
        /\ \A p, q \in 1 .. Len(Planes) :
             p < q => Planes[p].fitness >= Planes[q].fitness
        /\ top_soluciones # <<>> =>
             \A k \in 1 .. Len(poblacion) :
               top_soluciones[1].fitness >= poblacion[k].fitness)
  /\ [][top_soluciones # <<>> /\ top_soluciones' # top_soluciones =>
          top_soluciones'[1].fitness >= top_soluciones[1].fitness]_vars

\* three plans of different fitness were returned
TresPlanesDistintos ==
  /\ Len(Planes) = 3
  /\ Planes[1].fitness > Planes[2].fitness
  /\ Planes[2].fitness > Planes[3].fitness

\* C6: a team size greater than the number of agents supplied (tasks and
\* agents present) ends the request with the TeamTooLarge error on every
\* entry path: no population, no generation, no plan
EquipoGrandeRechazado ==
  (/\ pc # "nuevo"
   /\ peticion.problemas # <<>>
   /\ peticion.participantes # <<>>
   /\ peticion.tamanio_equipo # Ausente
   /\ peticion.tamanio_equipo > Len(peticion.participantes))
  => /\ pc = "fin"
     /\ resultado = ErrorDe("ValueError", MsgEquipoGrande)
     /\ poblacion = <<>>
     /\ evolucionadas = 0

\* C7: with an empty task list or an empty agent list both constructors
\* fail with the EmptyInput message, for an absent and for every positive
\* team size
EntradaVaciaRechazada ==
  (/\ pc # "nuevo"
   /\ peticion.via \in {"core", "wrapper"}
   /\ peticion.tamanio_equipo # 0
   /\ (peticion.problemas = <<>> \/ peticion.participantes = <<>>))
  => /\ pc = "fin"
     /\ resultado = ErrorDe("ValueError", MsgEntradaVacia)

InicioValidoDaPlanes ==
  (pc = "fin" /\ validos_iniciales >= 1) => (resultado.exito /\ Len(Planes) >= 1)

\* C10: ejecutar terminates; it starts at most generaciones_max generations,
\* the re-selection of the second parent makes at most 5 attempts, and the
\* reported generaciones_ejecutadas is the number of generations the loop
\* evolved (calls of _evolucionar_generacion), at most generaciones_max
EjecutarTermina ==
  /\ <>(pc = "fin")
  /\ [](/\ intentos <= MaxIntentos
        /\ evolucionadas <= cfg.generaciones_max
        /\ resultado.exito =>
             /\ resultado.generaciones_ejecutadas = evolucionadas
             /\ resultado.generaciones_ejecutadas <= cfg.generaciones_max)

\* the re-selection loop used its five attempts on a population of
\* identical chromosomes
AgotoIntentos ==
  /\ pc = "reseleccion"
  /\ intentos = MaxIntentos
  /\ padre1 = padre2
  /\ \A k \in 1 .. Len(poblacion) : poblacion[k].cromosoma = padre1

\* C11: the count of consecutive generations without an improvement of more
\* than 0.00001 never exceeds 30 and the loop is left when it reaches 30; a
\* generation that improves the best fitness by more than 0.00001 sets the
\* count to 0, any other adds 1
EstancamientoAcotado ==
  /\ [](/\ generaciones_sin_mejora <= MaxSinMejora
        /\ generaciones_sin_mejora = MaxSinMejora => pc \in {"resultado", "fin"})
  /\ [][(pc = "evaluar" /\ nueva_poblacion' = <<>>) =>
          IF MejorFitness(top_soluciones') - MejorFitness(top_soluciones) > UmbralMejora
          THEN generaciones_sin_mejora' = 0
          ELSE generaciones_sin_mejora' = generaciones_sin_mejora + 1]_vars

\* the loop was left after 30 generations without improvement, before the
\* last generation of the request
ParadaPorEstancamiento ==
  /\ pc = "resultado"
  /\ generaciones_sin_mejora = MaxSinMejora
  /\ evolucionadas = MaxSinMejora
  /\ generacion + 1 < cfg.generaciones_max
  /\ MejorFitness(top_soluciones) < FitnessOptimo

\* a generation without improvement was followed by one that improved the
\* best fitness: the count went from 1 to 0
ReinicioTrasMejora ==
  /\ pc \in {"bucle", "resultado"}
  /\ evolucionadas = 2
  /\ generaciones_sin_mejora = 0
  /\ fallos = 0

\* C12: no generation is evolved while the best fitness observed so far is
\* already >= 0.98: whenever the body of a generation is running, the best
\* fitness of top_soluciones (not yet updated by this generation) is < 0.98
SinEvolucionTrasOptimo ==
  pc \in {"padres", "reseleccion", "evaluar"} =>
    MejorFitness(top_soluciones) < FitnessOptimo

\* C13: the mejor_fitness values of the records of historial_fitness, in the
\* run and in the result it returns, are non-decreasing in generation order
TrazaNoDecreciente ==
  /\ \A a, b \in 1 .. Len(historial_fitness) :
       a < b => /\ historial_fitness[a].generacion < historial_fitness[b].generacion
                /\ historial_fitness[a].mejor_fitness <= historial_fitness[b].mejor_fitness
  /\ resultado.exito => resultado.historial_fitness = historial_fitness

\* a second record was written by a generation whose population is worse
\* than the best fitness already recorded
TrazaSostenida ==
  /\ Len(historial_fitness) >= 2
  /\ \A k \in 1 .. Len(poblacion) :
       poblacion[k].fitness < historial_fitness[1].mejor_fitness
  /\ historial_fitness[Len(historial_fitness)].generacion = generacion

\* C14: every record of the dense series carries a worst, a mean and a best
\* value with worst <= mean <= best, for every non-empty sparse history and
\* every draw of the noise
SerieOrdenada ==
  (pc = "fin" /\ historial_fitness # <<>>) =>
    /\ resultado.datos_grafica # <<>>
    /\ \A k \in 1 .. Len(resultado.datos_grafica) :
         LET d == resultado.datos_grafica[k]
         IN /\ d.peor_fitness # Ausente
            /\ d.peor_fitness <= d.fitness_promedio
            /\ d.fitness_promedio <= d.mejor_fitness

\* C14 without the history of a single record: the series of a history of
\* two or more records is ordered at every point
SerieOrdenadaDeVarios ==
  (pc = "fin" /\ Len(historial_fitness) >= 2) =>
    \A k \in 1 .. Len(resultado.datos_grafica) :
      LET d == resultado.datos_grafica[k]
      IN /\ d.peor_fitness # Ausente
         /\ d.peor_fitness <= d.fitness_promedio
         /\ d.fitness_promedio <= d.mejor_fitness

\* C15: after an evaluator has evaluated an individual, an individual that
\* is invalid has fitness exactly 0, for both evaluators and whether or not
\* an internal exception occurred
InvalidoTieneFitnessCero ==
  (pc = "fin" /\ ~poblacion[1].es_valido) => poblacion[1].fitness = 0

\* C15 for EvaluadorFitness alone
InvalidoCeroEnEvaluadorFitness ==
  (pc = "fin" /\ peticion.via = "EvaluadorFitness" /\ ~poblacion[1].es_valido)
    => poblacion[1].fitness = 0

\* C16: with one task, one agent and team size 1 a successful run returns
\* exactly one plan, and that plan has exactly one assignment (stated for
\* the runs in which no evaluation and no generation met an exception)
UnSoloPlanEnUnoPorUno ==
  (/\ resultado.exito
   /\ fallos = 0
   /\ cfg.num_problemas = 1
   /\ cfg.num_participantes = 1
   /\ cfg.tamanio_equipo = 1)
  => /\ Len(Planes) = 1
     /\ Len(Planes[1].asignaciones_detalle) = 1

\* C17: with as many tasks as agents and a team of that size, every plan of
\* a successful run gives a task to every agent (stated for the runs in which
\* no evaluation and no generation met an exception)
PlanesUsanTodos ==
  (/\ resultado.exito
   /\ fallos = 0
   /\ cfg.num_problemas = cfg.num_participantes
   /\ cfg.tamanio_equipo = cfg.num_participantes)
  => \A p \in 1 .. Len(Planes) :
       Len(Planes[p].asignaciones_detalle) = cfg.num_participantes

\* C17 for two tasks and two agents alone
PlanesUsanTodosDeDos ==
  (/\ resultado.exito
   /\ fallos = 0
   /\ cfg.num_problemas = 2
   /\ cfg.num_participantes = 2
   /\ cfg.tamanio_equipo = 2)
  => \A p \in 1 .. Len(Planes) : Len(Planes[p].asignaciones_detalle) = 2

\* the chromosome with columns a and b exchanged
IntercambiarColumnas(m, a, b) ==
  [i \in Filas(m) |-> [j \in Columnas(m) |->
     m[i][IF j = a THEN b ELSE IF j = b THEN a ELSE j]]]

\* the participant list with the entries of columns a and b exchanged
IntercambiarAgentes(participantes, a, b) ==
  [k \in 1 .. Len(participantes) |->
     participantes[IF k = a + 1 THEN b + 1 ELSE IF k = b + 1 THEN a + 1 ELSE k]]

\* C18: for every evaluated valid individual of the population and every two
\* agents, evaluating the chromosome with the two columns exchanged against
\* the participant list with the two agents exchanged gives the same fitness
\* and the same validity
EvaluacionSinPosicion ==
  \A k \in 1 .. Len(poblacion) :
    \A a, b \in Idx(cfg.num_participantes) :
      (poblacion[k].es_valido /\ a < b)
      => \E e \in {Evaluar(IntercambiarColumnas(poblacion[k].cromosoma, a, b),
                           cfg.problemas,
                           IntercambiarAgentes(cfg.participantes, a, b))} :
           /\ e.fitness = poblacion[k].fitness
           /\ e.es_valido

\* C18 for the populations over two agents alone
EvaluacionSinPosicionDeDos ==
  \A k \in 1 .. Len(poblacion) :
    (poblacion[k].es_valido /\ cfg.num_participantes = 2)
    => \E e \in {Evaluar(IntercambiarColumnas(poblacion[k].cromosoma, 0, 1),
                         cfg.problemas,
                         IntercambiarAgentes(cfg.participantes, 0, 1))} :
         /\ e.fitness = poblacion[k].fitness
         /\ e.es_valido

\* the chromosomes of the population and of the population being built
CromosomasDeLaCorrida ==
  {poblacion[k].cromosoma : k \in 1 .. Len(poblacion)}
  \cup {nueva_poblacion[k].cromosoma : k \in 1 .. Len(nueva_poblacion)}

\* C19: every chromosome of every population has at most one non-zero cell
\* per row and at most one per column
CromosomasUnoAUno == \A m \in CromosomasDeLaCorrida : UnoAUno(Celdas(m))

\* a generation was evolved over two tasks and two participants with a team
\* of one, and its child gives another task to another participant than any
\* individual of the elite
HijoEnOtraFilaYColumna ==
  /\ pc = "bucle"
  /\ evolucionadas = 1
  /\ cfg.num_problemas = 2
  /\ cfg.max_asignaciones = 1
  /\ Len(poblacion) = 4
  /\ \A k \in 1 .. 3 :
       \A c \in Celdas(poblacion[k].cromosoma), d \in Celdas(poblacion[4].cromosoma) :
         c[1] # d[1] /\ c[2] # d[2]

\* C20: every chromosome of every population has at least one non-zero cell
\* and at most max_asignaciones = min(number of tasks, team size)
AsignacionesDentroDelTope ==
  \A m \in CromosomasDeLaCorrida :
    /\ Cardinality(Celdas(m)) >= 1
    /\ Cardinality(Celdas(m)) <= cfg.max_asignaciones
    /\ cfg.max_asignaciones = Min2(cfg.num_problemas, cfg.tamanio_equipo)

\* a generation was evolved over three tasks and three participants with a
\* team of three, and its child has two assignments
HijoBajoElTope ==
  /\ pc = "bucle"
  /\ evolucionadas = 1
  /\ Len(poblacion) = 4
  /\ cfg.max_asignaciones = 3
  /\ Cardinality(Celdas(poblacion[4].cromosoma)) = 2

\* the highest fitness of a population
MaxFitness(pob) == MaxDe({0} \cup {pob[k].fitness : k \in 1 .. Len(pob)})

PoblacionDeTamanoFijo ==
  /\ [](poblacion # <<>> => Len(poblacion) = cfg.poblacion_size)
  /\ [][(pc = "bucle" /\ evolucionadas' = evolucionadas + 1)
        => nueva_poblacion' # <<>>]_vars

\* C22 for the populations that exist
TamanoConstante == poblacion # <<>> => Len(poblacion) = cfg.poblacion_size

\* C23: while _evolucionar_generacion builds the next population (elite,
\* selection of parents, crossover, mutation), the individuals of the current
\* population and the top solutions keep chromosome, fitness and validity
HijosSinEfecto ==
  [][(pc \in {"bucle", "padres", "reseleccion"}
      /\ pc' \in {"padres", "reseleccion", "evaluar"})
     => /\ poblacion' = poblacion
        /\ top_soluciones' = top_soluciones]_vars

\* the next population is complete, and its child, made from two different
\* parents over three tasks, has a chromosome that no individual of the
\* current population has
HijoDistintoDeTodos ==
  /\ pc = "evaluar"
  /\ cfg.num_problemas = 3
  /\ Len(nueva_poblacion) = 4
  /\ padre1 # padre2
  /\ \A k \in 1 .. Len(poblacion) :
       poblacion[k].cromosoma # nueva_poblacion[4].cromosoma
  /\ \A k \in 1 .. Len(top_soluciones) :
       top_soluciones[k].cromosoma # nueva_poblacion[4].cromosoma

\* C24: every non-zero cell of a child returned by _cruzar_mejorado is
\* non-zero in parent 1 or in parent 2 (stated for every pair of parents a
\* run selects)
CruceTomaDeLosPadres ==
  pc = "reseleccion"
  => \A h \in CruzarMejorado(padre1, padre2, cfg) :
       Celdas(h) \subseteq Celdas(padre1) \cup Celdas(padre2)

\* two parents are selected and one of their crossover children has a cell
\* that only parent 1 has and a cell that only parent 2 has
CruceMezclaPadres ==
  /\ pc = "reseleccion"
  /\ \E h \in CruzarMejorado(padre1, padre2, cfg) :
       /\ Celdas(h) \cap (Celdas(padre1) \ Celdas(padre2)) # {}
       /\ Celdas(h) \cap (Celdas(padre2) \ Celdas(padre1)) # {}

\* C25: applied to a chromosome with at least two assignments (here the copy
\* of parent 1 a child starts from when crossover is skipped),
\* _mutar_mejorado can return the chromosome with one assignment removed and
\* all the others unchanged
MutacionPuedeQuitar ==
  (pc = "reseleccion" /\ Cardinality(Celdas(padre1)) >= 2)
  => \E h \in MutarMejorado(padre1, cfg) :
       \E c \in Celdas(padre1) : h = Poner(padre1, c[1], c[2], 0)

\* C26: the dense series of a sparse history of two or more records has
\* exactly one record for every generation from the first to the last, in
\* increasing order, and the record at a sparse generation keeps the best
\* value recorded there
SerieDensa ==
  (pc = "fin" /\ Len(historial_fitness) >= 2)
  => LET datos == resultado.datos_grafica
         primera == historial_fitness[1].generacion
         ultima == historial_fitness[Len(historial_fitness)].generacion
     IN /\ Len(datos) = ultima - primera + 1
        /\ \A k \in 1 .. Len(datos) : datos[k].generacion = primera + k - 1
        /\ \A i \in 1 .. Len(historial_fitness) :
             \E k \in 1 .. Len(datos) :
               /\ datos[k].generacion = historial_fitness[i].generacion
               /\ datos[k].mejor_fitness = historial_fitness[i].mejor_fitness

\* the series of the history with records at generations 0, 1 and 3: four
\* records, the third one interpolated
SerieConInterpolado ==
  /\ pc = "fin"
  /\ Len(historial_fitness) = 3
  /\ Len(resultado.datos_grafica) = 4
  /\ resultado.datos_grafica[3].interpolado
  /\ ~resultado.datos_grafica[2].interpolado

\* C27: after a run through the wrapper, the summary generated for the
\* matrix of the plan of rank n holds the assignments of that matrix, for
\* every rank n of the result
ResumenDeLaSeleccionada ==
  (resultado.exito /\ peticion.via \in {"wrapper", "optimizar"})
  => \A n \in 1 .. Len(Planes) :
       GenerarResumenAsignacion(Planes[n].matriz_asignacion, top_soluciones, cfg)
         = AsignacionesDetalle(Planes[n].matriz_asignacion, cfg)

\* C27 for the plan of rank 1 alone
ResumenDeLaPrimera ==
  (resultado.exito /\ peticion.via \in {"wrapper", "optimizar"})
  => GenerarResumenAsignacion(Planes[1].matriz_asignacion, top_soluciones, cfg)
       = AsignacionesDetalle(Planes[1].matriz_asignacion, cfg)

\* C28: the result of evaluating an individual equals the result a freshly
\* constructed evaluator gives for the same chromosome, list of problems and
\* list of participants, also when the evaluator evaluated the chromosome
\* before with another list of problems (stated for the calls in which no
\* internal exception occurred)
EvaluacionIgualQueFresca ==
  (/\ pc \in {"llamada", "fin"}
   /\ peticion.via = "EvaluadorFitnessAvanzado"
   /\ fallos = 0)
  => poblacion[Len(poblacion)] =
       EvaluarAvanzado(poblacion[Len(poblacion)].cromosoma, cfg.problemas,
                       cfg.participantes, FALSE)

\* C28 for the calls that pass the lists of the first call: the cache then
\* returns what a fresh evaluator computes
EvaluacionIgualConMismasListas ==
  (/\ pc \in {"llamada", "fin"}
   /\ peticion.via = "EvaluadorFitnessAvanzado"
   /\ fallos = 0
   /\ cfg.problemas = <<Facil, Dificil>>)
  => poblacion[Len(poblacion)] =
       EvaluarAvanzado(poblacion[Len(poblacion)].cromosoma, cfg.problemas,
                       cfg.participantes, FALSE)

MejorEvaluado == MaxDe(fitness_unicos \cup {0})

\* once the initial population has been evaluated, and after every
\* generation, the first top solution has the highest fitness of all
\* individuals evaluated so far, and so has the rank-1 plan of the result
ArchivoTieneElMejor ==
  /\ top_soluciones # <<>> => top_soluciones[1].fitness = MejorEvaluado
  /\ resultado.exito => Planes[1].fitness = MejorEvaluado

\* no step makes top_soluciones shorter (stated for the runs in which no
\* evaluation and no generation met an exception)
ArchivoNoSeAcorta ==
  [][fallos' = 0 => Len(top_soluciones') >= Len(top_soluciones)]_vars

====
